---- MODULE Spec2Model ----
(***************************************************************************)
(* Model of the baostock daily-bar ingestion pipeline of qlib-vision:      *)
(*   scripts/data_collector/baostock_1d/collector.py                       *)
(*     BaostockCollector.get_data_from_remote   (remote fetch, retried)    *)
(*     BaostockNormalize.normalize_baostock / calc_change                  *)
(*     BaostockNormalize1d.adjusted_price                                  *)
(*     BaostockNormalize1dExtend.normalize      (splice onto the archive)  *)
(*                                                                         *)
(* Numbers are IEEE doubles in the program.  Here a number is a pair       *)
(* <<n, d>> in lowest terms with d >= 0: n/d for d > 0, +inf = <<1,0>>,    *)
(* -inf = <<-1,0>> and NaN = <<0,0>>.  Multiplication, division and        *)
(* subtraction on these pairs give the IEEE results for NaN, infinities    *)
(* and division by zero; rounding and the sign of zero are not modelled.   *)
(***************************************************************************)
EXTENDS Integers, Sequences, FiniteSets, TLC

VARIABLES
    \* ---- normalize / extend pipeline (one instrument's frame) ----
    raw_df,          \* the frame handed to normalize(): sequence of raw rows
    old_qlib_data,   \* BaostockNormalize1dExtend.old_qlib_data: instrument -> archived rows
    df,              \* the frame as it moves through the stages
    normalized,      \* what super().normalize(df) returned at line 226 (<<>> before)
    stage,           \* position in BaostockNormalize1dExtend.normalize
    outcome,         \* "none", "returned" or "raised" for the extending normalizer
    \* ---- remote fetch (get_data_from_remote under deco_retry) ----
    BAOSTOCK_LOGGED_IN,  \* module global _BAOSTOCK_LOGGED_IN
    pc,              \* per worker: position in the retry wrapper / function body
    attempt,         \* per worker: _i of the retry loop (0 before the call)
    rs,              \* per worker: response of the last query
    sent,            \* per worker: arguments of the last query issued
    ret,             \* per worker: what the call returned / raised
    hist,            \* per worker: observation record of the current attempt
    established,     \* a session-establish call made by a fetch attempt has returned
    \* ---- health scan (DataHealthChecker.check_data) ----
    instrument_list, \* the instruments to check, in the order of D.list_instruments
    n_jobs,          \* the size of the worker pool
    features,        \* per instrument: what D.features does for it (a frame, or it raises)
    task,            \* per instrument: "pending", "running" or "done" in the worker pool
    completed,       \* the instruments in the order their checks finished
    results,         \* per instrument: what check_instrument_data returned
    summary,         \* the summary dict of summarize_results
    problems_found,  \* the flag of summarize_results
    scan_pc,         \* "scan" while checks run, then "clean" or "issues"
    \* ---- update run (Run.update_data_to_bin) ----
    run_pc,          \* position in update_data_to_bin
    qlib_data_exists,\* exists_qlib_data(qlib_data_1d_dir)
    progress,        \* per instrument: how far its rows have come in this run
    dumped,          \* per instrument: the rows the dump wrote to the archive
    index_done,      \* the index baskets whose membership list has been refreshed
    warnings,        \* what logger.warning was called with at line 350
    run_trace        \* the stages of update_data_to_bin in the order they started

pipe_vars  == <<raw_df, old_qlib_data, df, normalized, stage, outcome>>
fetch_vars == <<BAOSTOCK_LOGGED_IN, pc, attempt, rs, sent, ret, hist, established>>
health_vars == <<instrument_list, n_jobs, features, task, completed, results, summary,
                 problems_found, scan_pc>>
run_vars == <<run_pc, qlib_data_exists, progress, dumped, index_done, warnings, run_trace>>
vars == <<raw_df, old_qlib_data, df, normalized, stage, outcome,
          BAOSTOCK_LOGGED_IN, pc, attempt, rs, sent, ret, hist, established,
          instrument_list, n_jobs, features, task, completed, results, summary,
          problems_found, scan_pc,
          run_pc, qlib_data_exists, progress, dumped, index_done, warnings, run_trace>>

-----------------------------------------------------------------------------
(* Bounds of the model *)

\* largest number of rows in a raw frame
MaxRows == 3
\* trading dates are 1..MaxDate
MaxDate == 3
\* concurrent callers of get_data_from_remote sharing the module global
NumWorkers == 2

\* BaostockCollector.retry (line 42).  get_data_from_remote is decorated with
\* the bare @deco_retry, whose number of attempts the specification gives as
\* 5 as well.
retry == 5

-----------------------------------------------------------------------------
(* Floating-point values *)

NaN    == <<0, 0>>
PosInf == <<1, 0>>
Zero   == <<0, 1>>
One    == <<1, 1>>

Abs(x) == IF x < 0 THEN -x ELSE x
Sign(x) == IF x < 0 THEN -1 ELSE IF x > 0 THEN 1 ELSE 0

RECURSIVE GCD(_, _)
GCD(a, b) == IF b = 0 THEN a ELSE GCD(b, a % b)

\* the pair n/d in lowest terms with a non-negative denominator
Norm(n, d) ==
    IF d = 0 THEN <<Sign(n), 0>>
    ELSE LET g == GCD(Abs(n), Abs(d))
             s == IF d < 0 THEN -1 ELSE 1
         IN  <<(s * n) \div g, (s * d) \div g>>

Num(n) == <<n, 1>>
Frac(n, d) == Norm(n, d)

isnan(v) == v = NaN
notna(v) == v # NaN

\* a * b, cancelling across before multiplying to keep the integers small
Mul(a, b) ==
    IF a[2] = 0 \/ b[2] = 0 THEN <<Sign(a[1]) * Sign(b[1]), 0>>
    ELSE LET g1 == GCD(Abs(a[1]), b[2])
             g2 == GCD(Abs(b[1]), a[2])
         IN  Norm((a[1] \div g1) * (b[1] \div g2), (a[2] \div g2) * (b[2] \div g1))
Inv(a) == IF a[1] < 0 THEN <<-a[2], -a[1]>> ELSE <<a[2], a[1]>>
Div(a, b) == Mul(a, Inv(b))
Sub(a, b) == Norm(a[1] * b[2] - b[1] * a[2], a[2] * b[2])

\* v <= 0 and v > 0 as numpy compares them: any comparison with NaN is False
LeZero(v) == notna(v) /\ v[1] <= 0
GtZero(v) == notna(v) /\ v[1] > 0

-----------------------------------------------------------------------------
(* pd.to_numeric(..., errors="coerce") on the provider's strings.           *)
(* A raw cell is a sequence of characters.  Accepted: an optional "-",      *)
(* digits, an optional "." followed by digits, at least one digit in all.   *)
(* Everything else (the empty string, "nan", text) is coerced to NaN.       *)

Digits == {"0", "1", "2", "3", "4", "5", "6", "7", "8", "9"}

DigitVal(c) ==
    CASE c = "0" -> 0 [] c = "1" -> 1 [] c = "2" -> 2 [] c = "3" -> 3
      [] c = "4" -> 4 [] c = "5" -> 5 [] c = "6" -> 6 [] c = "7" -> 7
      [] c = "8" -> 8 [] c = "9" -> 9

RECURSIVE ParseDigits(_, _)
ParseDigits(s, acc) ==
    IF s = <<>> THEN acc ELSE ParseDigits(Tail(s), acc * 10 + DigitVal(Head(s)))

RECURSIVE Pow10(_)
Pow10(k) == IF k = 0 THEN 1 ELSE 10 * Pow10(k - 1)

AllDigits(s) == \A i \in 1..Len(s) : s[i] \in Digits

ParseUnsigned(s) ==
    LET dots == {i \in 1..Len(s) : s[i] = "."}
    IN  IF dots = {}
        THEN IF Len(s) > 0 /\ AllDigits(s) THEN Num(ParseDigits(s, 0)) ELSE NaN
        ELSE IF Cardinality(dots) > 1 THEN NaN
        ELSE LET p == CHOOSE i \in dots : TRUE
                 ip == SubSeq(s, 1, p - 1)
                 fp == SubSeq(s, p + 1, Len(s))
             IN  IF AllDigits(ip) /\ AllDigits(fp) /\ Len(ip) + Len(fp) > 0
                 THEN Norm(ParseDigits(ip, 0) * Pow10(Len(fp)) + ParseDigits(fp, 0),
                           Pow10(Len(fp)))
                 ELSE NaN

to_numeric(s) ==
    IF s # <<>> /\ Head(s) = "-"
    THEN LET v == ParseUnsigned(Tail(s)) IN <<-v[1], v[2]>>
    ELSE ParseUnsigned(s)

\* a NaN stored in a column of strings
NaNCell == <<"n", "a", "n">>

-----------------------------------------------------------------------------
(* Frames.  A frame is a sequence of rows; a row is a record.  Of the       *)
(* provider's fields the model keeps date, symbol, open, high, low, close,  *)
(* preclose and volume (amount, adjustflag, turn, tradestatus, pctChg and   *)
(* isST are never read after line 152 blanks them; the factor taken from    *)
(* adjustflag at line 178 is overwritten at line 192).                      *)

Calendar == 1..MaxDate

SetMin(S) == CHOOSE x \in S : \A y \in S : x <= y
SetMax(S) == CHOOSE x \in S : \A y \in S : x >= y

RECURSIVE SortedSeq(_)
SortedSeq(S) == IF S = {} THEN <<>> ELSE <<SetMin(S)>> \o SortedSeq(S \ {SetMin(S)})

Dates(f) == {f[i].date : i \in 1..Len(f)}

\* df[~df.index.duplicated(keep="first")] followed by .loc[d]
FirstRowAt(f, d) ==
    f[CHOOSE i \in 1..Len(f) : f[i].date = d /\ \A j \in 1..(i - 1) : f[j].date # d]

\* the row reindex() creates for a calendar date with no raw row
BlankRow(d) ==
    [date |-> d, symbol |-> NaNCell, open |-> NaNCell, high |-> NaNCell,
     low |-> NaNCell, close |-> NaNCell, preclose |-> NaNCell, volume |-> NaNCell]

\* of the rows sharing a date the last one kept
Reindex_keeplast(f) ==
    LET lo == SetMin(Dates(f))
        hi == SetMax(Dates(f))
        idx == SortedSeq({d \in Calendar : lo <= d /\ d <= hi})
        LastAt(d) == f[CHOOSE i \in 1..Len(f) :
                          f[i].date = d /\ \A j \in (i + 1)..Len(f) : f[j].date # d]
    IN  [i \in 1..Len(idx) |->
            IF idx[i] \in Dates(f) THEN LastAt(idx[i]) ELSE BlankRow(idx[i])]

\* lines 137-149: index by date, drop duplicated dates, reindex onto the
\* calendar dates of [min(date), max(date)], sort by date
Reindex(f) ==
    LET lo == SetMin(Dates(f))
        hi == SetMax(Dates(f))
        idx == SortedSeq({d \in Calendar : lo <= d /\ d <= hi})
    IN  [i \in 1..Len(idx) |->
            IF idx[i] \in Dates(f) THEN FirstRowAt(f, idx[i]) ELSE BlankRow(idx[i])]

\* lines 150-151: the five COLUMNS are parsed, the other cells stay as they are
CoerceRow(r) ==
    [r EXCEPT !.open = to_numeric(r.open), !.close = to_numeric(r.close),
              !.high = to_numeric(r.high), !.low = to_numeric(r.low),
              !.volume = to_numeric(r.volume)]

\* the test for NaN alone
InvalidVolume_nanonly(r) == isnan(r.volume)

\* (df["volume"] <= 0) | np.isnan(df["volume"])
InvalidVolume(r) == LeZero(r.volume) \/ isnan(r.volume)

\* line 152: every column but the symbol becomes NaN on an invalid-volume row
BlankInvalid(r) ==
    IF InvalidVolume(r)
    THEN [r EXCEPT !.open = NaN, !.high = NaN, !.low = NaN, !.close = NaN,
                   !.volume = NaN, !.preclose = NaNCell]
    ELSE r

\* df["close"].ffill()
RECURSIVE Ffill(_, _)
Ffill(s, last) ==
    IF s = <<>> THEN <<>>
    ELSE LET v == IF isnan(Head(s)) THEN last ELSE Head(s)
         IN  <<v>> \o Ffill(Tail(s), v)

\* lines 115-122.  last_close is a number or "None".
calc_change(f, last_close) ==
    LET tmp == Ffill([i \in 1..Len(f) |-> f[i].close], NaN)
        shift == [i \in 1..Len(f) |->
                    IF i = 1 THEN (IF last_close = "None" THEN NaN ELSE last_close)
                    ELSE tmp[i - 1]]
    IN  [i \in 1..Len(f) |-> Sub(Div(tmp[i], shift[i]), One)]

\* lines 150-151 on a frame that normalize has already produced: the five
\* COLUMNS are float64 and pd.to_numeric returns them as they are
CoerceRowFloat(r) == r

\* lines 125-158; raw says whether the cells of lines 150-151 are the
\* provider's strings or floats already
normalize_baostock_cols(f, last_close, raw) ==
    IF f = <<>> THEN f
    ELSE LET symbol == f[1].symbol
             re == Reindex(f)
             num == [i \in 1..Len(re) |-> BlankInvalid(IF raw THEN CoerceRow(re[i])
                                                            ELSE CoerceRowFloat(re[i]))]
             chg == calc_change(num, last_close)
         IN  [i \in 1..Len(num) |->
                [date |-> num[i].date, symbol |-> symbol,
                 open |-> num[i].open, high |-> num[i].high, low |-> num[i].low,
                 close |-> num[i].close, preclose |-> num[i].preclose,
                 volume |-> num[i].volume,
                 change |-> IF InvalidVolume(num[i]) THEN NaN ELSE chg[i]]]

\* lines 125-158 on the provider's frame, whose cells are strings
normalize_baostock(f, last_close) == normalize_baostock_cols(f, last_close, TRUE)

\* the running product started again after every NaN entry
RECURSIVE cumprod_reset(_, _)
cumprod_reset(s, acc) ==
    IF s = <<>> THEN <<>>
    ELSE IF isnan(Head(s)) THEN <<NaN>> \o cumprod_reset(Tail(s), One)
    ELSE <<Mul(acc, Head(s))>> \o cumprod_reset(Tail(s), Mul(acc, Head(s)))

\* Series.cumprod(): NaN entries are skipped by the running product and stay NaN
RECURSIVE cumprod(_, _)
cumprod(s, acc) ==
    IF s = <<>> THEN <<>>
    ELSE IF isnan(Head(s)) THEN <<NaN>> \o cumprod(Tail(s), acc)
    ELSE <<Mul(acc, Head(s))>> \o cumprod(Tail(s), Mul(acc, Head(s)))

\* line 192: close / to_numeric(preclose), row by row
FactorRatio(r) == Div(r.close, to_numeric(r.preclose))

\* the volume multiplied by the factor
adjusted_price_times(f) ==
    IF f = <<>> THEN f
    ELSE LET factor == cumprod([i \in 1..Len(f) |-> FactorRatio(f[i])], One)
         IN  [i \in 1..Len(f) |->
                [date |-> f[i].date, symbol |-> f[i].symbol,
                 open |-> f[i].open, high |-> f[i].high, low |-> f[i].low,
                 close |-> f[i].close, preclose |-> f[i].preclose,
                 volume |-> Mul(f[i].volume, factor[i]),
                 change |-> f[i].change, factor |-> factor[i]]]

\* lines 171-204
adjusted_price(f) ==
    IF f = <<>> THEN f
    ELSE LET factor == cumprod([i \in 1..Len(f) |-> FactorRatio(f[i])], One)
         IN  [i \in 1..Len(f) |->
                [date |-> f[i].date, symbol |-> f[i].symbol,
                 open |-> f[i].open, high |-> f[i].high, low |-> f[i].low,
                 close |-> f[i].close, preclose |-> f[i].preclose,
                 volume |-> Div(f[i].volume, factor[i]),
                 change |-> f[i].change, factor |-> factor[i]]]

\* lines 160-163: BaostockNormalize.normalize (no last_close is passed)
normalize(f) == adjusted_price(normalize_baostock(f, "None"))

\* lines 160-163 applied to a frame that normalize returned: the columns it
\* reads (date, symbol, open, high, low, close, preclose, volume) are all there
normalize_again(f) == adjusted_price(normalize_baostock_cols(f, "None", FALSE))

-----------------------------------------------------------------------------
(* BaostockNormalize1dExtend.normalize: the splice onto the archive *)

\* line 215, without the trailing "change" (column_list[:-1])
RescaleColumns == {"open", "high", "low", "close", "volume", "factor"}

\* str(symbol_name).upper()
Upper(sym) ==
    CASE sym = "sh600000" -> "SH600000"
      [] sym = "sz000001" -> "SZ000001"
      [] OTHER -> sym

\* the slice forgotten: every row is kept
LocFrom_all(f, latest_date) == f

\* df.loc[latest_date:] on the date-sorted index: the rows dated latest_date or later
LocFrom(f, latest_date) == SelectSeq(f, LAMBDA r : r.date >= latest_date)

\* line 239
CanRescale(new_v, old_v) == notna(new_v) /\ new_v # Zero /\ notna(old_v)

\* the ratio inverted: new over old
RescaleCell_inverted(col, v, new_v, old_v) ==
    IF CanRescale(new_v, old_v) THEN Mul(v, Div(new_v, old_v)) ELSE v

\* lines 239-243 for one column of one row
RescaleCell(col, v, new_v, old_v) ==
    IF CanRescale(new_v, old_v)
    THEN IF col = "volume" THEN Div(v, Div(new_v, old_v))
                           ELSE Mul(v, Div(old_v, new_v))
    ELSE v

\* one ratio for all columns: that of close
RescaleFrame_closeratio(f, new_latest_data, old_latest_data) ==
    [i \in 1..Len(f) |->
        [c \in DOMAIN f[i] |->
            IF c \in RescaleColumns
            THEN RescaleCell(c, f[i][c], new_latest_data.close, old_latest_data.close)
            ELSE f[i][c]]]

\* lines 236-243: every row of the sliced frame, column by column
RescaleFrame(f, new_latest_data, old_latest_data) ==
    [i \in 1..Len(f) |->
        [c \in DOMAIN f[i] |->
            IF c \in RescaleColumns
            THEN RescaleCell(c, f[i][c], new_latest_data[c], old_latest_data[c])
            ELSE f[i][c]]]

\* the boundary row kept in the returned frame
Splice_keepfirst(f, old_df) ==
    LET latest_date == old_df[Len(old_df)].date
        sl == LocFrom(f, latest_date)
    IN  IF Len(sl) > 1
        THEN RescaleFrame(sl, sl[1], old_df[Len(old_df)])
        ELSE <<>>

\* lines 232-244, for an instrument that is in the archive
Splice(f, old_df) ==
    LET latest_date == old_df[Len(old_df)].date
        sl == LocFrom(f, latest_date)
    IN  IF Len(sl) > 1
        THEN Tail(RescaleFrame(sl, sl[1], old_df[Len(old_df)]))
        ELSE <<>>

\* the boundary row dropped on the first-ingestion path as well
ExtendResult_dropfirst(f, old) ==
    IF f = <<>> THEN [status |-> "raised", rows |-> <<>>]
    ELSE IF Upper(f[1].symbol) \notin DOMAIN old
         THEN [status |-> "returned", rows |-> Tail(f)]
         ELSE [status |-> "returned", rows |-> Splice(f, old[Upper(f[1].symbol)])]

\* lines 227-244 applied to the output f of the plain normalizer.
\* On an empty frame set_index / .iloc[0] raise (KeyError / IndexError).
ExtendResult(f, old) ==
    IF f = <<>> THEN [status |-> "raised", rows |-> <<>>]
    ELSE IF Upper(f[1].symbol) \notin DOMAIN old
         THEN [status |-> "returned", rows |-> f]
         ELSE [status |-> "returned", rows |-> Splice(f, old[Upper(f[1].symbol)])]

-----------------------------------------------------------------------------
(* Inputs of the pipeline *)

RawRow(d, k) ==
    [date |-> d, symbol |-> "sh600000", open |-> k.open, high |-> k.high,
     low |-> k.low, close |-> k.close, preclose |-> k.preclose, volume |-> k.volume]

RowKind(price, preclose, volume) ==
    [open |-> price, high |-> price, low |-> price, close |-> price,
     preclose |-> preclose, volume |-> volume]

\* provider rows used for the splice: three ordinary days and a suspended day
SpliceKinds ==
    { RowKind(<<"3", "0">>, <<"3", "0">>, <<"1", "0", "0">>),
      RowKind(<<"3", "1">>, <<"3", "0">>, <<"1", "0", "0">>),
      RowKind(<<"3", "2">>, <<"3", "1">>, <<"1", "0", "0">>),
      RowKind(<<"3", "0">>, <<"3", "0">>, <<"0">>) }

\* provider rows used for the factor: a split day, a zero close, and a
\* preclose that is missing, zero or not a number
FactorKinds ==
    { RowKind(<<"1", "0">>, <<"1", "0">>, <<"1", "0", "0">>),
      RowKind(<<"2", "0">>, <<"1", "0">>, <<"1", "0", "0">>),
      RowKind(<<"1", "0">>, <<>>, <<"1", "0", "0">>),
      RowKind(<<"1", "0">>, <<"0">>, <<"1", "0", "0">>),
      RowKind(<<"1", "0">>, <<"-", "-">>, <<"1", "0", "0">>),
      RowKind(<<"1", "0">>, <<"1", "0">>, <<>>) }

\* a frame of n rows: dates ds in the provider's order (ascending, a date
\* possibly repeated), cells ks
IsDateOrdered(ds) == \A i \in 1..(Len(ds) - 1) : ds[i] <= ds[i + 1]
Frame(ds, ks) == [i \in 1..Len(ds) |-> RawRow(ds[i], ks[i])]

ArchRow(d, price, volume, factor) ==
    [date |-> d, open |-> price, high |-> price, low |-> price, close |-> price,
     volume |-> volume, factor |-> factor, change |-> IF isnan(price) THEN NaN ELSE Zero]

\* the archived series of an instrument ending at last_date
ArchSeries(last_date, last_row) ==
    IF last_date > 1
    THEN <<ArchRow(last_date - 1, Num(15), Num(200), Num(2)), last_row>>
    ELSE <<last_row>>

\* archives: without SH600000, or with its series ending at one of the trading
\* dates on an ordinary row or on an all-NaN (suspended) row
Archives ==
    { [i \in {"SZ000001"} |-> ArchSeries(1, ArchRow(1, Num(15), Num(200), Num(2)))] }
    \cup
    UNION { { [i \in {"SH600000", "SZ000001"} |-> ArchSeries(d, r)]
                : r \in { ArchRow(d, Num(15), Num(200), Num(2)),
                          ArchRow(d, NaN, NaN, NaN) } }
            : d \in 1..MaxDate }

-----------------------------------------------------------------------------
(* The normalize / extend pipeline as a state machine.                      *)
(* stage: "raw" -> "baostock" -> "normalized" -> "done".  At "normalized"   *)
(* df is the output of the plain normalizer (BaostockNormalize1d); at       *)
(* "done" it is what BaostockNormalize1dExtend.normalize returned.          *)

\* the fetch side does not move while the pipeline is studied
FetchIdle ==
    /\ BAOSTOCK_LOGGED_IN = FALSE
    /\ pc = <<>> /\ attempt = <<>> /\ rs = <<>> /\ sent = <<>> /\ ret = <<>>
    /\ hist = <<>>
    /\ established = FALSE

\* no health scan has been started
HealthIdle ==
    /\ instrument_list = <<>> /\ n_jobs = 1 /\ features = <<>> /\ task = <<>> /\ completed = <<>>
    /\ results = <<>> /\ summary = <<>> /\ problems_found = FALSE
    /\ scan_pc = "idle"

\* no update run has been started
RunIdle ==
    /\ run_pc = "idle" /\ qlib_data_exists = TRUE
    /\ progress = <<>> /\ dumped = <<>> /\ index_done = <<>> /\ warnings = <<>>
    /\ run_trace = <<>>

InitPipe(kinds, archives) ==
    /\ \E n \in 0..MaxRows :
         \E ds \in [1..n -> Calendar], ks \in [1..n -> kinds] :
            /\ IsDateOrdered(ds)
            /\ raw_df = Frame(ds, ks)
    /\ old_qlib_data \in archives
    /\ df = raw_df
    /\ normalized = <<>>
    /\ stage = "raw"
    /\ outcome = "none"
    /\ FetchIdle /\ HealthIdle /\ RunIdle

\* line 161, first half: normalize_baostock
NormalizeBaostock ==
    /\ stage = "raw"
    /\ df' = normalize_baostock(df, "None")
    /\ stage' = "baostock"
    /\ UNCHANGED <<raw_df, old_qlib_data, normalized, outcome>>
    /\ UNCHANGED <<fetch_vars, health_vars, run_vars>>

\* line 162: adjusted_price
AdjustedPrice ==
    /\ stage = "baostock"
    /\ df' = adjusted_price(df)
    /\ normalized' = df'
    /\ stage' = "normalized"
    /\ UNCHANGED <<raw_df, old_qlib_data, outcome>>
    /\ UNCHANGED <<fetch_vars, health_vars, run_vars>>

\* lines 227-244: the extending normalizer's own part
ExtendSplice ==
    /\ stage = "normalized"
    /\ LET r == ExtendResult(df, old_qlib_data)
       IN  /\ df' = r.rows
           /\ outcome' = r.status
    /\ stage' = "done"
    /\ UNCHANGED <<raw_df, old_qlib_data, normalized>>
    /\ UNCHANGED <<fetch_vars, health_vars, run_vars>>

NextPipe == NormalizeBaostock \/ AdjustedPrice \/ ExtendSplice

\* the splice, on ordinary and suspended days against every archive
Init == InitPipe(SpliceKinds, Archives)
Spec == Init /\ [][NextPipe]_vars

\* lines 160-163 once more: the frame the plain normalizer returned is handed
\* to normalize a second time, with the same calendar
Renormalize ==
    /\ stage = "normalized"
    /\ df' = normalize_again(df)
    /\ stage' = "renormalized"
    /\ UNCHANGED <<raw_df, old_qlib_data, normalized, outcome>>
    /\ UNCHANGED <<fetch_vars, health_vars, run_vars>>

NextNormalize == NextPipe \/ Renormalize

\* the factor, on rows with a split, a zero close and a bad preclose
FirstIngest == [i \in {"SZ000001"} |-> ArchSeries(1, ArchRow(1, Num(15), Num(200), Num(2)))]
InitNormalize == InitPipe(FactorKinds, {FirstIngest})
SpecNormalize == InitNormalize /\ [][NextNormalize]_vars

\* the splice column by column: days on which one column cannot be rescaled
\* (an open of 0) next to ordinary and suspended days, against archives whose
\* last row has every value or lacks the factor
RescaleKinds ==
    { RowKind(<<"3", "0">>, <<"3", "0">>, <<"1", "0", "0">>),
      RowKind(<<"3", "1">>, <<"3", "0">>, <<"1", "0", "0">>),
      [RowKind(<<"3", "0">>, <<"3", "0">>, <<"1", "0", "0">>) EXCEPT !.open = <<"0">>],
      RowKind(<<"3", "0">>, <<"3", "0">>, <<"0">>) }

RescaleArchives ==
    UNION { { [i \in {"SH600000", "SZ000001"} |-> ArchSeries(d, r)]
                : r \in { ArchRow(d, Num(15), Num(200), Num(2)),
                          ArchRow(d, Num(15), Num(200), NaN) } }
            : d \in 1..MaxDate }

\* days without a usable volume (0, negative, empty, text) between an
\* ordinary day and a split day, on first ingestion
InvalidKinds ==
    { RowKind(<<"1", "0">>, <<"1", "0">>, <<"1", "0", "0">>),
      RowKind(<<"2", "0">>, <<"1", "0">>, <<"1", "0", "0">>),
      RowKind(<<"2", "0">>, <<"1", "0">>, <<"0">>),
      RowKind(<<"2", "0">>, <<"1", "0">>, <<"-", "5">>),
      RowKind(<<"2", "0">>, <<"1", "0">>, <<>>) }

InitInvalid == InitPipe(InvalidKinds, {FirstIngest})
SpecInvalid == InitInvalid /\ [][NextPipe]_vars

InitRescale == InitPipe(RescaleKinds, RescaleArchives)
SpecRescale == InitRescale /\ [][NextPipe]_vars

-----------------------------------------------------------------------------
(* BaostockCollector.get_data_from_remote under @deco_retry.                *)
(*                                                                         *)
(* Each worker calls get_data_from_remote for its instrument; the workers   *)
(* share the module global _BAOSTOCK_LOGGED_IN.  The body is modelled       *)
(* statement by statement where it touches the global (line 82 read,        *)
(* line 83 bs.login(), line 84 write); the query of lines 85-92 and the     *)
(* purely local lines 93-98 form one step.  The state starts after          *)
(* BaostockCollector.__init__, whose own bs.login() (line 56) leaves the    *)
(* global False; established records only the logins of fetch attempts.     *)
(*                                                                         *)
(* deco_retry lives in data_collector/utils.py, which is not among the      *)
(* sources; the wrapper (Retry, Propagate, AfterFailure) follows the        *)
(* specification text: up to 5 attempts with the same arguments, the        *)
(* error propagated when the last one fails.                                *)

Workers == 1..NumWorkers

SymbolOf(w) == IF w % 2 = 1 THEN "sh600000" ELSE "sz000001"

\* the arguments of the call made by worker w (lines 100-104, get_data)
CallArgs(w) ==
    [symbol |-> SymbolOf(w), interval |-> "1d",
     start_datetime |-> 1, end_datetime |-> MaxDate]

\* start and end exchanged in the request
QueryRequest_swapped(a) ==
    [code |-> a.symbol, start_date |-> a.end_datetime, end_date |-> a.start_datetime,
     frequency |-> IF a.interval = "1d" THEN "d" ELSE "5", adjustflag |-> "2"]

\* lines 85-92: the request sent to the provider
QueryRequest(a) ==
    [code |-> a.symbol, start_date |-> a.start_datetime, end_date |-> a.end_datetime,
     frequency |-> IF a.interval = "1d" THEN "d" ELSE "5", adjustflag |-> "2"]

\* what the provider holds for a request: one bar of the requested code
ProviderData(req) ==
    << [date |-> req.start_date, code |-> req.code,
        open |-> <<"1", "0">>, high |-> <<"1", "0">>, low |-> <<"1", "0">>,
        close |-> <<"1", "0">>, preclose |-> <<"1", "0">>,
        volume |-> <<"1", "0", "0">>] >>

\* baostock error codes: success, "user not logged in", "network receive error"
BSERR_SUCCESS == "0"
BSERR_NO_LOGIN == "10001001"
BSERR_RECV == "10002007"

\* the results bs.query_history_k_data_plus can come back with
Responses(req) ==
    { [error_code |-> BSERR_SUCCESS, data |-> ProviderData(req)],
      [error_code |-> BSERR_SUCCESS, data |-> <<>>],
      [error_code |-> BSERR_RECV, data |-> <<>>],
      [error_code |-> BSERR_NO_LOGIN, data |-> <<>>] }

\* the symbol column filled from the provider's code column, letter case changed
WithSymbol_code(rows, symbol) ==
    [i \in 1..Len(rows) |->
        [c \in DOMAIN rows[i] \cup {"symbol"} |->
            IF c = "symbol" THEN Upper(rows[i].code) ELSE rows[i][c]]]

\* line 96: data["symbol"] = symbol
WithSymbol(rows, symbol) ==
    [i \in 1..Len(rows) |->
        [c \in DOMAIN rows[i] \cup {"symbol"} |->
            IF c = "symbol" THEN symbol ELSE rows[i][c]]]

\* lines 93-98: what the function returns for a response
ReturnValue(r, symbol) ==
    IF r.error_code = BSERR_SUCCESS /\ r.data # <<>>
    THEN [kind |-> "data", rows |-> WithSymbol(r.data, symbol)]
    ELSE [kind |-> "empty", rows |-> <<>>]

\* the test dropped: never log in
NeedsLogin_never(flag) == FALSE

\* line 82: if not _BAOSTOCK_LOGGED_IN
NeedsLogin(flag) == ~flag

\* lines 82-98 never assign False to the global: the value it has after the
\* response r has been handled
FlagAfterResponse(flag, r) == flag

\* deco_retry: after the attempt numbered i has raised
AfterFailure(i) == IF i = retry THEN "raise" ELSE "again"

NoRequest == [code |-> "none", start_date |-> 0, end_date |-> 0,
              frequency |-> "none", adjustflag |-> "none"]
NoResponse == [error_code |-> "none", data |-> <<>>]
NoReturn == [kind |-> "none", rows |-> <<>>]
NoHist == [checked |-> "none", login |-> FALSE, queried |-> "none", raised |-> 0]
FlagName(flag) == IF flag THEN "set" ELSE "unset"

PipeIdle ==
    /\ raw_df = <<>> /\ old_qlib_data = <<>> /\ df = <<>> /\ normalized = <<>>
    /\ stage = "idle" /\ outcome = "none"

InitFetch ==
    /\ BAOSTOCK_LOGGED_IN = FALSE
    /\ pc = [w \in Workers |-> "idle"]
    /\ attempt = [w \in Workers |-> 0]
    /\ rs = [w \in Workers |-> NoResponse]
    /\ sent = [w \in Workers |-> NoRequest]
    /\ ret = [w \in Workers |-> NoReturn]
    /\ hist = [w \in Workers |-> NoHist]
    /\ established = FALSE
    /\ PipeIdle /\ HealthIdle /\ RunIdle

\* the wrapper is entered: first attempt of a call
Call(w) ==
    /\ pc[w] \in {"idle", "done"}
    /\ pc' = [pc EXCEPT ![w] = "check"]
    /\ attempt' = [attempt EXCEPT ![w] = 1]
    /\ rs' = [rs EXCEPT ![w] = NoResponse]
    /\ sent' = [sent EXCEPT ![w] = NoRequest]
    /\ ret' = [ret EXCEPT ![w] = NoReturn]
    /\ hist' = [hist EXCEPT ![w] = NoHist]
    /\ UNCHANGED <<BAOSTOCK_LOGGED_IN, established>>
    /\ UNCHANGED <<pipe_vars, health_vars, run_vars>>

\* line 82: read the global
CheckFlag(w) ==
    /\ pc[w] = "check"
    /\ pc' = [pc EXCEPT ![w] = IF NeedsLogin(BAOSTOCK_LOGGED_IN) THEN "login" ELSE "query"]
    /\ hist' = [hist EXCEPT ![w].checked = FlagName(BAOSTOCK_LOGGED_IN),
                            ![w].login = FALSE, ![w].queried = "none"]
    /\ UNCHANGED <<BAOSTOCK_LOGGED_IN, attempt, rs, sent, ret, established>>
    /\ UNCHANGED <<pipe_vars, health_vars, run_vars>>

\* line 83: bs.login() returns (its result is not inspected) or raises
Login(w) ==
    /\ pc[w] = "login"
    /\ \/ /\ pc' = [pc EXCEPT ![w] = "setflag"]
          /\ hist' = [hist EXCEPT ![w].login = TRUE]
          /\ established' = TRUE
       \/ /\ pc' = [pc EXCEPT ![w] = "failed"]
          /\ hist' = [hist EXCEPT ![w].raised = @ + 1]
          /\ UNCHANGED established
    /\ UNCHANGED <<BAOSTOCK_LOGGED_IN, attempt, rs, sent, ret>>
    /\ UNCHANGED <<pipe_vars, health_vars, run_vars>>

\* line 84: write the global
SetFlag(w) ==
    /\ pc[w] = "setflag"
    /\ BAOSTOCK_LOGGED_IN' = TRUE
    /\ pc' = [pc EXCEPT ![w] = "query"]
    /\ UNCHANGED <<attempt, rs, sent, ret, hist, established>>
    /\ UNCHANGED <<pipe_vars, health_vars, run_vars>>

\* lines 85-98: the query is issued; it raises, or its response is turned
\* into the return value
Query(w) ==
    /\ pc[w] = "query"
    /\ sent' = [sent EXCEPT ![w] = QueryRequest(CallArgs(w))]
    /\ \/ \E r \in Responses(QueryRequest(CallArgs(w))) :
            /\ rs' = [rs EXCEPT ![w] = r]
            /\ ret' = [ret EXCEPT ![w] = ReturnValue(r, CallArgs(w).symbol)]
            /\ BAOSTOCK_LOGGED_IN' = FlagAfterResponse(BAOSTOCK_LOGGED_IN, r)
            /\ pc' = [pc EXCEPT ![w] = "done"]
            /\ hist' = [hist EXCEPT ![w].queried = FlagName(BAOSTOCK_LOGGED_IN)]
       \/ /\ pc' = [pc EXCEPT ![w] = "failed"]
          /\ hist' = [hist EXCEPT ![w].queried = FlagName(BAOSTOCK_LOGGED_IN),
                                  ![w].raised = @ + 1]
          /\ UNCHANGED <<rs, ret, BAOSTOCK_LOGGED_IN>>
    /\ UNCHANGED <<attempt, established>>
    /\ UNCHANGED <<pipe_vars, health_vars, run_vars>>

\* deco_retry: the attempt raised and attempts remain: sleep, try again
Retry(w) ==
    /\ pc[w] = "failed"
    /\ AfterFailure(attempt[w]) = "again"
    /\ attempt' = [attempt EXCEPT ![w] = @ + 1]
    /\ pc' = [pc EXCEPT ![w] = "check"]
    /\ UNCHANGED <<BAOSTOCK_LOGGED_IN, rs, sent, ret, hist, established>>
    /\ UNCHANGED <<pipe_vars, health_vars, run_vars>>

\* deco_retry: the last attempt raised: the exception reaches the caller
Propagate(w) ==
    /\ pc[w] = "failed"
    /\ AfterFailure(attempt[w]) = "raise"
    /\ ret' = [ret EXCEPT ![w] = [kind |-> "raised", rows |-> <<>>]]
    /\ pc' = [pc EXCEPT ![w] = "done"]
    /\ UNCHANGED <<BAOSTOCK_LOGGED_IN, attempt, rs, sent, hist, established>>
    /\ UNCHANGED <<pipe_vars, health_vars, run_vars>>

NextFetch ==
    \E w \in Workers :
        \/ Call(w)
        \/ CheckFlag(w)
        \/ Login(w)
        \/ SetFlag(w)
        \/ Query(w)
        \/ Retry(w)
        \/ Propagate(w)

SpecFetch == InitFetch /\ [][NextFetch]_vars

-----------------------------------------------------------------------------
(* scripts/check_data_health.py: check_instrument_data                      *)
(*                                                                         *)
(* What D.features returns for an instrument is a record: kind "raises"     *)
(* with the exception's message, or kind "frame" with the set of columns    *)
(* the frame holds and its rows in date order.  A row has a date and a      *)
(* number for each of the six columns; the value of a column that the       *)
(* frame does not hold is never read.                                       *)

\* line 122, and the names lines 33-43 give the fields
required_fields == <<"$open", "$close", "$low", "$high", "$volume", "$factor">>
Renamed(field) ==
    CASE field = "$open" -> "open" [] field = "$close" -> "close"
      [] field = "$low" -> "low" [] field = "$high" -> "high"
      [] field = "$volume" -> "volume" [] field = "$factor" -> "factor"

\* line 46, and the columns of the loop at line 58
required_columns == <<"open", "high", "low", "close", "volume">>
StepColumns == <<"open", "high", "low", "close", "volume">>

\* the defaults of DataHealthChecker.__init__ (lines 93-95)
large_step_threshold_price == Frac(1, 2)
large_step_threshold_volume == Num(3)
missing_data_num == 0

SeqToSet(s) == {s[i] : i \in 1..Len(s)}

\* a > b on floats: False when either is NaN
Gt(a, b) == notna(a) /\ notna(b) /\ a[1] * b[2] > b[1] * a[2]

\* the sign kept: no abs()
AbsVal_signed(v) == v

\* Series.abs()
AbsVal(v) == <<Abs(v[1]), v[2]>>

\* the column forward-filled before the change is taken
pct_change_ffill(s) ==
    LET filled == Ffill(s, NaN)
    IN  [i \in 1..Len(s) |-> IF i = 1 THEN NaN ELSE Sub(Div(filled[i], filled[i - 1]), One)]

\* Series.pct_change(fill_method=None): v[t] / v[t-1] - 1, NaN on the first
\* row and wherever v[t] or v[t-1] is NaN; nothing is filled beforehand
pct_change(s) ==
    [i \in 1..Len(s) |-> IF i = 1 THEN NaN ELSE Sub(Div(s[i], s[i - 1]), One)]

\* Series.max(): the largest non-NaN value, NaN when there is none
SeriesMax(s) ==
    LET vals == {s[i] : i \in 1..Len(s)} \ {NaN}
    IN  IF vals = {} THEN NaN
        ELSE CHOOSE m \in vals : \A v \in vals : ~Gt(v, m)

Column(fr, col) == [i \in 1..Len(fr.rows) |-> fr.rows[i][col]]

\* the columns of the frame in the frame's own order (after the rename)
FrameColumns(fr) ==
    SelectSeq([i \in 1..Len(required_fields) |-> Renamed(required_fields[i])],
              LAMBDA c : c \in fr.columns)

\* the values of a missing_data dict
MissingAll == [kind |-> "all", count |-> 0]
MissingCount(n) == [kind |-> "count", count |-> n]

\* the test inverted: the columns that are there
missing_cols_present(fr) == SelectSeq(required_columns, LAMBDA c : c \in fr.columns)

\* lines 46-49
missing_cols(fr) == SelectSeq(required_columns, LAMBDA c : c \notin fr.columns)

\* the counts at or above missing_data_num
missing_data_cols_atleast(fr) ==
    [c \in fr.columns |->
        MissingCount(Cardinality({i \in 1..Len(fr.rows) : isnan(fr.rows[i][c])}))]

\* lines 52-55: df.isnull().sum(), the counts above missing_data_num, as a dict
missing_counts(fr, col) == Cardinality({i \in 1..Len(fr.rows) : isnan(fr.rows[i][col])})
missing_data_cols(fr) ==
    LET over == {c \in fr.columns : missing_counts(fr, c) > missing_data_num}
    IN  [c \in over |-> MissingCount(missing_counts(fr, c))]

\* lines 60-70 for one column that the frame holds
LargeStep(fr, col) ==
    LET pct == [i \in 1..Len(fr.rows) |-> AbsVal(pct_change(Column(fr, col))[i])]
        threshold == IF col = "volume" THEN large_step_threshold_volume
                                       ELSE large_step_threshold_price
        first == CHOOSE i \in 1..Len(pct) :
                    /\ Gt(pct[i], threshold)
                    /\ \A j \in 1..(i - 1) : ~Gt(pct[j], threshold)
    IN  IF Gt(SeriesMax(pct), threshold)
        THEN << [col_name |-> col, date |-> fr.rows[first].date,
                 pct_change |-> SeriesMax(pct)] >>
        ELSE <<>>

\* lines 58-70: the loop over the five columns, skipping those not in the frame
RECURSIVE LargeSteps(_, _)
LargeSteps(fr, cols) ==
    IF cols = <<>> THEN <<>>
    ELSE (IF Head(cols) \in fr.columns THEN LargeStep(fr, Head(cols)) ELSE <<>>)
         \o LargeSteps(fr, Tail(cols))

\* one NaN factor is enough for "all_nan"
MissingFactor_any(fr) ==
    IF "factor" \notin fr.columns THEN "column_missing"
    ELSE IF \E i \in 1..Len(fr.rows) : isnan(fr.rows[i].factor) THEN "all_nan"
    ELSE "None"

\* lines 73-76; "None" stands for None
MissingFactor(fr) ==
    IF "factor" \notin fr.columns THEN "column_missing"
    ELSE IF \A i \in 1..Len(fr.rows) : isnan(fr.rows[i].factor) THEN "all_nan"
    ELSE "None"

\* line 25.  The dict gets its "error" key only at line 79: has_error says
\* whether the key is there.
NoProblems(instrument) ==
    [instrument |-> instrument, missing_data |-> <<>>, large_steps |-> <<>>,
     missing_columns |-> <<>>, missing_factor |-> "None",
     has_error |-> FALSE, error |-> ""]

\* the exception swallowed without a trace
Captured_dropped(problems, msg) == problems

\* lines 78-79: problems["error"] = str(e)
Captured(problems, msg) == [problems EXCEPT !.has_error = TRUE, !.error = msg]

\* lines 13-81
check_instrument_data(instrument, fr) ==
    IF fr.kind = "raises"
    THEN Captured(NoProblems(instrument), fr.msg)
    ELSE IF fr.rows = <<>>
    THEN [NoProblems(instrument) EXCEPT
              !.missing_data = [c \in SeqToSet(required_fields) |-> MissingAll]]
    ELSE [NoProblems(instrument) EXCEPT
              !.missing_columns = missing_cols(fr),
              !.missing_data = missing_data_cols(fr),
              !.large_steps = LargeSteps(fr, StepColumns),
              !.missing_factor = MissingFactor(fr)]

-----------------------------------------------------------------------------
(* DataHealthChecker.summarize_results *)

\* the keys of a missing_data dict in the order the dict holds them
DictKeys(d) ==
    SelectSeq(required_fields \o [i \in 1..Len(required_fields) |-> Renamed(required_fields[i])],
              LAMBDA k : k \in DOMAIN d)

\* lines 153-155: res.get("error") is false for a missing key and for ""
ErrorsOf(res) ==
    IF res.has_error /\ res.error # ""
    THEN << [instrument |-> res.instrument, error |-> res.error] >>
    ELSE <<>>

\* lines 156-159
MissingDataOf(res) ==
    LET keys == DictKeys(res.missing_data)
    IN  [i \in 1..Len(keys) |->
            [instrument |-> res.instrument, column |-> keys[i],
             missing_count |-> res.missing_data[keys[i]]]]

\* lines 160-163
LargeStepsOf(res) ==
    [i \in 1..Len(res.large_steps) |->
        [instrument |-> res.instrument, col_name |-> res.large_steps[i].col_name,
         date |-> res.large_steps[i].date, pct_change |-> res.large_steps[i].pct_change]]

\* lines 164-166
MissingColumnsOf(res) ==
    IF res.missing_columns # <<>>
    THEN << [instrument |-> res.instrument, missing_columns |-> res.missing_columns] >>
    ELSE <<>>

\* lines 167-169
MissingFactorOf(res) ==
    IF res.missing_factor # "None"
    THEN << [instrument |-> res.instrument, reason |-> res.missing_factor] >>
    ELSE <<>>

\* the five tests of lines 153-169: this result sets problems_found
SetsProblemsFound(res) ==
    \/ ErrorsOf(res) # <<>>
    \/ DOMAIN res.missing_data # {}
    \/ res.large_steps # <<>>
    \/ res.missing_columns # <<>>
    \/ res.missing_factor # "None"

\* the entries one result contributes to a category of the summary
EntriesOf(res, key) ==
    CASE key = "missing_data" -> MissingDataOf(res)
      [] key = "large_steps" -> LargeStepsOf(res)
      [] key = "missing_columns" -> MissingColumnsOf(res)
      [] key = "missing_factor" -> MissingFactorOf(res)
      [] key = "errors" -> ErrorsOf(res)

RECURSIVE Flatten(_)
Flatten(ss) == IF ss = <<>> THEN <<>> ELSE Head(ss) \o Flatten(Tail(ss))

\* the loop of line 151 for one category: the entries of every result, in order
Gather(rs_list, key) == Flatten([i \in 1..Len(rs_list) |-> EntriesOf(rs_list[i], key)])

\* lines 142-169
summarize_results(rs_list) ==
    [summary |-> [missing_data |-> Gather(rs_list, "missing_data"),
                  large_steps |-> Gather(rs_list, "large_steps"),
                  missing_columns |-> Gather(rs_list, "missing_columns"),
                  missing_factor |-> Gather(rs_list, "missing_factor"),
                  errors |-> Gather(rs_list, "errors")],
     problems_found |-> \E i \in 1..Len(rs_list) : SetsProblemsFound(rs_list[i])]

-----------------------------------------------------------------------------
(* DataHealthChecker.check_data: the checks are dispatched to a pool of      *)
(* n_jobs workers (joblib.Parallel, lines 124-134); each check is a call of *)
(* check_instrument_data in its own worker, and Parallel returns the        *)
(* results as a list in the order of the instruments once every check has   *)
(* finished.  summarize_results is then called on that list (line 136).     *)

\* instrument codes in the order D.list_instruments gives them
InstrumentNames == <<"SH600000", "SH600004", "SZ000001", "SZ000002", "SZ000004">>

NumInstruments == 2

HRow(d, open, close, volume, factor) ==
    [date |-> d, open |-> open, high |-> close, low |-> close, close |-> close,
     volume |-> volume, factor |-> factor]

AllColumns == {"open", "high", "low", "close", "volume", "factor"}

FeatureFrame(cols, rows) == [kind |-> "frame", msg |-> "", columns |-> cols, rows |-> rows]
FeatureRaises(msg) == [kind |-> "raises", msg |-> msg, columns |-> {}, rows |-> <<>>]

\* the values a day can hold: an ordinary day, price steps of 60%, 150% and of
\* exactly 50%, volume steps of 400% and of exactly 300%, a suspended day, a
\* day without factor, a day with volume 0
HealthKinds ==
    { <<Num(10), Num(10), Num(100), One>>,
      <<Num(10), Num(16), Num(100), One>>,
      <<Num(16), Num(40), Num(500), One>>,
      <<Num(10), Num(15), Num(400), One>>,
      <<NaN, NaN, NaN, NaN>>,
      <<Num(10), Num(10), Num(100), NaN>>,
      <<Num(10), Num(10), Zero, One>> }

\* the column sets D.features can come back with
HealthColumnSets ==
    { AllColumns, AllColumns \ {"volume"}, AllColumns \ {"factor"},
      AllColumns \ {"open", "volume"} }

HealthRows(ks) == [i \in 1..Len(ks) |-> HRow(i, ks[i][1], ks[i][2], ks[i][3], ks[i][4])]

\* exceptions of D.features: one with a message, one whose str() is empty
\* (a bare assert, raise NotImplementedError)
HealthErrors == { FeatureRaises("No such file"), FeatureRaises("") }

\* frames for the scan over several instruments
ScanFrames ==
    HealthErrors \cup
    { FeatureFrame(AllColumns, <<>>),
      FeatureFrame(AllColumns, HealthRows(<< <<Num(10), Num(10), Num(100), One>>,
                                             <<Num(10), Num(10), Num(100), One>> >>)),
      FeatureFrame(AllColumns \ {"volume"},
                   HealthRows(<< <<Num(10), Num(10), Num(100), One>>,
                                 <<Num(10), Num(10), Num(100), One>> >>)),
      FeatureFrame(AllColumns \ {"open", "volume"},
                   HealthRows(<< <<Num(10), Num(10), Num(100), One>>,
                                 <<Num(10), Num(10), Num(100), One>> >>)),
      FeatureFrame(AllColumns, HealthRows(<< <<Num(10), Num(10), Num(100), NaN>>,
                                             <<Num(10), Num(16), Num(100), NaN>> >>)) }

\* line 25 has not run yet for the instrument
NoResult == NoProblems("")
NoSummary == [missing_data |-> <<>>, large_steps |-> <<>>, missing_columns |-> <<>>,
              missing_factor |-> <<>>, errors |-> <<>>]

Positions == DOMAIN instrument_list

InitScan(n) ==
    /\ instrument_list = SubSeq(InstrumentNames, 1, n)
    /\ task = [i \in 1..n |-> "pending"]
    /\ completed = <<>>
    /\ results = [i \in 1..n |-> NoResult]
    /\ summary = NoSummary
    /\ problems_found = FALSE
    /\ scan_pc = "scan"
    /\ PipeIdle /\ FetchIdle /\ RunIdle

\* a worker of the pool takes the next check (joblib dispatches in list order)
StartCheck(i) ==
    /\ scan_pc = "scan"
    /\ task[i] = "pending"
    /\ \A j \in 1..(i - 1) : task[j] # "pending"
    /\ Cardinality({j \in Positions : task[j] = "running"}) < n_jobs
    /\ task' = [task EXCEPT ![i] = "running"]
    /\ UNCHANGED <<instrument_list, features, n_jobs, completed, results, summary,
                   problems_found, scan_pc>>
    /\ UNCHANGED <<pipe_vars, fetch_vars, run_vars>>

\* lines 13-81 in the worker: the check returns its dict
FinishCheck(i) ==
    /\ task[i] = "running"
    /\ results' = [results EXCEPT ![i] = check_instrument_data(instrument_list[i], features[i])]
    /\ task' = [task EXCEPT ![i] = "done"]
    /\ completed' = Append(completed, i)
    /\ UNCHANGED <<instrument_list, features, n_jobs, summary, problems_found, scan_pc>>
    /\ UNCHANGED <<pipe_vars, fetch_vars, run_vars>>

\* line 136, once Parallel has returned the list of results
Summarize ==
    /\ scan_pc = "scan"
    /\ \A i \in Positions : task[i] = "done"
    /\ LET s == summarize_results(results)
       IN  /\ summary' = s.summary
           /\ problems_found' = s.problems_found
           /\ scan_pc' = IF s.problems_found THEN "issues" ELSE "clean"
    /\ UNCHANGED <<instrument_list, features, n_jobs, task, completed, results>>
    /\ UNCHANGED <<pipe_vars, fetch_vars, run_vars>>

NextHealth ==
    \/ \E i \in Positions : StartCheck(i)
    \/ \E i \in Positions : FinishCheck(i)
    \/ Summarize

\* one instrument, every frame of up to MaxRows days
InitHealth ==
    /\ InitScan(1)
    /\ n_jobs = 1
    /\ \E fr \in HealthErrors \cup
                 UNION { { FeatureFrame(cols, HealthRows(ks)) : ks \in [1..n -> HealthKinds] }
                         : cols \in HealthColumnSets, n \in 0..MaxRows } :
          features = <<fr>>
SpecHealth == InitHealth /\ [][NextHealth]_vars

\* several instruments checked by a pool of workers
InitHealthScan ==
    /\ InitScan(NumInstruments)
    /\ n_jobs \in 1..NumWorkers
    /\ features \in [1..NumInstruments -> ScanFrames]
SpecScan == InitHealthScan /\ [][NextHealth]_vars

\* frames for the scan with its scheduling: an exception with and without a
\* message, an empty frame, one day with all columns, one day without volume
LiveFrames ==
    HealthErrors \cup
    { FeatureFrame(AllColumns, <<>>),
      FeatureFrame(AllColumns, HealthRows(<< <<Num(10), Num(10), Num(100), One>> >>)),
      FeatureFrame(AllColumns \ {"volume"},
                   HealthRows(<< <<Num(10), Num(10), Num(100), One>> >>)) }

InitHealthLive ==
    /\ InitScan(NumInstruments)
    /\ n_jobs \in 1..NumWorkers
    /\ features \in [1..NumInstruments -> LiveFrames]

\* the scan with its scheduling: a worker that has a check finishes it,
\* pending checks are dispatched while the pool has a free worker, and
\* check_data goes on to line 136 when Parallel returns
SpecScanLive == InitHealthLive /\ [][NextHealth]_vars /\ WF_vars(NextHealth)

-----------------------------------------------------------------------------
(* Run.update_data_to_bin (lines 301-350).                                  *)
(*                                                                         *)
(* The method is a straight sequence of calls: GetData().qlib_data when     *)
(* the archive does not exist (lines 318-321), download_data (line 330),    *)
(* normalize_data_1d_extend (line 332), DumpDataUpdate.dump (line 340) and  *)
(* the refresh of the index baskets inside try/except (lines 342-350).      *)
(* Each call returns or raises; an exception of a call outside the try      *)
(* leaves update_data_to_bin.                                               *)
(*                                                                         *)
(* What the callees do per instrument is not in the sources at hand         *)
(* (data_collector/base.py, dump_bin.py, data_collector/cn_index); it       *)
(* follows the specification: the collector fetches every instrument with   *)
(* a pool of workers, Normalize applies the normalize class to every        *)
(* fetched file, the dump appends each instrument's rows to the archive,    *)
(* and each of these calls returns once all its instruments are done.       *)

\* line 342
index_list == <<"CSI100", "CSI300", "CSI500">>

\* the dump called before normalize_data_1d_extend
StageAfter_dump_early(s, exists) ==
    CASE s = "start" -> IF exists THEN "download" ELSE "bootstrap"
      [] s = "bootstrap" -> "download"
      [] s = "download" -> "dump"
      [] s = "dump" -> "normalize_extend"
      [] s = "normalize_extend" -> "index"
      [] s = "index" -> "returned"

\* the stage that follows a stage in the program order of lines 318-342
StageAfter(s, exists) ==
    CASE s = "start" -> IF exists THEN "download" ELSE "bootstrap"
      [] s = "bootstrap" -> "download"
      [] s = "download" -> "normalize_extend"
      [] s = "normalize_extend" -> "dump"
      [] s = "dump" -> "index"
      [] s = "index" -> "returned"

\* the exception of the index refresh leaves update_data_to_bin
AfterIndexFailure_raised == "raised"

\* lines 349-350: the exception is logged and the method returns
AfterIndexFailure == "returned"

RunInstruments == 1..NumInstruments

Events(i) == SeqToSet(progress[i].events)
Did(i, e) == e \in Events(i)
Record(i, e) == [progress EXCEPT ![i].events = Append(@, e)]

\* the call of the stage starts
Enter(s) ==
    /\ run_pc' = s
    /\ run_trace' = IF s = "returned" THEN run_trace ELSE Append(run_trace, s)

InitRun ==
    /\ run_pc = "start"
    /\ qlib_data_exists \in BOOLEAN
    /\ progress = [i \in RunInstruments |-> [events |-> <<>>, rows |-> 0]]
    /\ dumped = [i \in RunInstruments |-> 0]
    /\ index_done = <<>>
    /\ warnings = <<>>
    /\ run_trace = <<>>
    /\ PipeIdle /\ FetchIdle /\ HealthIdle

\* lines 312-318: exists_qlib_data decides whether the archive is bootstrapped
Begin ==
    /\ run_pc = "start"
    /\ Enter(StageAfter("start", qlib_data_exists))
    /\ UNCHANGED <<qlib_data_exists, progress, dumped, index_done, warnings>>
    /\ UNCHANGED <<pipe_vars, fetch_vars, health_vars>>

\* lines 319-321: GetData().qlib_data returns with the archive in place
Bootstrap ==
    /\ run_pc = "bootstrap"
    /\ qlib_data_exists' = TRUE
    /\ Enter(StageAfter("bootstrap", TRUE))
    /\ UNCHANGED <<progress, dumped, index_done, warnings>>
    /\ UNCHANGED <<pipe_vars, fetch_vars, health_vars>>

\* a call outside the try raises: update_data_to_bin is left with the exception
StageRaises ==
    /\ run_pc \in {"bootstrap", "download", "normalize_extend", "dump"}
    /\ run_pc' = "raised"
    /\ UNCHANGED <<qlib_data_exists, progress, dumped, index_done, warnings, run_trace>>
    /\ UNCHANGED <<pipe_vars, fetch_vars, health_vars>>

\* inside download_data: the bars of one instrument are fetched and saved
FetchOne(i) ==
    /\ run_pc = "download"
    /\ ~Did(i, "fetched")
    /\ progress' = Record(i, "fetched")
    /\ UNCHANGED <<run_pc, qlib_data_exists, dumped, index_done, warnings, run_trace>>
    /\ UNCHANGED <<pipe_vars, fetch_vars, health_vars>>

\* inside normalize_data_1d_extend, line 226: super().normalize(df)
NormalizeOne(i) ==
    /\ run_pc = "normalize_extend"
    /\ ~Did(i, "normalized")
    /\ progress' = Record(i, "normalized")
    /\ UNCHANGED <<run_pc, qlib_data_exists, dumped, index_done, warnings, run_trace>>
    /\ UNCHANGED <<pipe_vars, fetch_vars, health_vars>>

\* lines 227-244 of the same call: the splice returns the rows to append
ExtendOne(i) ==
    /\ run_pc = "normalize_extend"
    /\ Did(i, "normalized") /\ ~Did(i, "extended")
    /\ \E n \in 0..MaxRows :
          progress' = [progress EXCEPT ![i].events = Append(@, "extended"), ![i].rows = n]
    /\ UNCHANGED <<run_pc, qlib_data_exists, dumped, index_done, warnings, run_trace>>
    /\ UNCHANGED <<pipe_vars, fetch_vars, health_vars>>

\* inside DumpDataUpdate.dump: the instrument's normalized rows are written
DumpOne(i) ==
    /\ run_pc = "dump"
    /\ ~Did(i, "written")
    /\ progress' = Record(i, "written")
    /\ dumped' = [dumped EXCEPT ![i] = progress[i].rows]
    /\ UNCHANGED <<run_pc, qlib_data_exists, index_done, warnings, run_trace>>
    /\ UNCHANGED <<pipe_vars, fetch_vars, health_vars>>

\* what the running call has to have done for every instrument before it returns
StageEvent(s) ==
    CASE s = "download" -> "fetched"
      [] s = "normalize_extend" -> "extended"
      [] s = "dump" -> "written"

\* lines 330, 332, 340: the call returns and the next statement is reached
StageReturns ==
    /\ run_pc \in {"download", "normalize_extend", "dump"}
    /\ \A i \in RunInstruments : Did(i, StageEvent(run_pc))
    /\ Enter(StageAfter(run_pc, qlib_data_exists))
    /\ UNCHANGED <<qlib_data_exists, progress, dumped, index_done, warnings>>
    /\ UNCHANGED <<pipe_vars, fetch_vars, health_vars>>

\* lines 347-348: get_instruments returns for the next basket of index_list
RefreshIndex ==
    /\ run_pc = "index"
    /\ Len(index_done) < Len(index_list)
    /\ index_done' = Append(index_done, index_list[Len(index_done) + 1])
    /\ UNCHANGED <<run_pc, qlib_data_exists, progress, dumped, warnings, run_trace>>
    /\ UNCHANGED <<pipe_vars, fetch_vars, health_vars>>

\* lines 343-350: the import or a get_instruments call raises inside the try
RefreshFails ==
    /\ run_pc = "index"
    /\ Len(index_done) < Len(index_list)
    /\ warnings' = Append(warnings, "Failed to update index data")
    /\ run_pc' = AfterIndexFailure
    /\ UNCHANGED <<qlib_data_exists, progress, dumped, index_done, run_trace>>
    /\ UNCHANGED <<pipe_vars, fetch_vars, health_vars>>

\* the loop of line 347 is over: update_data_to_bin returns
RefreshDone ==
    /\ run_pc = "index"
    /\ Len(index_done) = Len(index_list)
    /\ Enter(StageAfter("index", qlib_data_exists))
    /\ UNCHANGED <<qlib_data_exists, progress, dumped, index_done, warnings>>
    /\ UNCHANGED <<pipe_vars, fetch_vars, health_vars>>

NextRun ==
    \/ Begin
    \/ Bootstrap
    \/ StageRaises
    \/ \E i \in RunInstruments : FetchOne(i)
    \/ \E i \in RunInstruments : NormalizeOne(i)
    \/ \E i \in RunInstruments : ExtendOne(i)
    \/ \E i \in RunInstruments : DumpOne(i)
    \/ StageReturns
    \/ RefreshIndex
    \/ RefreshFails
    \/ RefreshDone

SpecRun == InitRun /\ [][NextRun]_vars

-----------------------------------------------------------------------------
(* Properties of the update run (specification SpecRun) *)

StageOrder == <<"bootstrap", "download", "normalize_extend", "dump", "index">>
StagePos(s) == CHOOSE k \in 1..Len(StageOrder) : StageOrder[k] = s
Started(s) == s \in SeqToSet(run_trace)

InstrumentOrder == <<"fetched", "normalized", "extended", "written">>
IsPrefix(a, b) == Len(a) <= Len(b) /\ a = SubSeq(b, 1, Len(a))

\* C18: the stages of an update run start in the order bootstrap (only when
\* the archive is absent), fetch, normalize and extend, archive write, index
\* refresh; an instrument's rows are written only after its own fetch,
\* normalize and extend, in that order; the index refresh starts only after
\* every instrument's write has finished.
C18_StagesInOrder ==
    /\ \A k, l \in 1..Len(run_trace) :
          k < l => StagePos(run_trace[k]) < StagePos(run_trace[l])
    /\ Started("download") => qlib_data_exists
    /\ \A s \in {"normalize_extend", "dump", "index"} :
          Started(s) => Started(StageOrder[StagePos(s) - 1])
    /\ \A i \in RunInstruments :
          /\ IsPrefix(progress[i].events, InstrumentOrder)
          /\ Started("dump") => Did(i, "extended")
          /\ Started("index") => Did(i, "written")

\* a run that bootstrapped the archive and went through every stage to its end
C18_Witness ==
    /\ run_pc = "returned"
    /\ run_trace = StageOrder
    /\ \A i \in RunInstruments : progress[i].events = InstrumentOrder
    /\ index_done = index_list

\* the step in which the index refresh ends on an exception: the index stage
\* is left before every basket has been refreshed
IndexRefreshFailed ==
    run_pc = "index" /\ run_pc' # "index" /\ Len(index_done) < Len(index_list)

\* C19: when the index refresh fails (the import or any basket),
\* update_data_to_bin returns normally, the failure is logged as a warning
\* and what the dump wrote stays as written; a run that has reached the
\* index refresh never ends with an exception.
C19_IndexFailureSwallowed ==
    /\ [][IndexRefreshFailed =>
             /\ run_pc' = "returned"
             /\ warnings' = Append(warnings, "Failed to update index data")
             /\ dumped' = dumped /\ progress' = progress]_vars
    /\ [](run_pc = "raised" => ~Started("index"))
    /\ [](run_pc = "returned" =>
             \A i \in RunInstruments : Did(i, "written") /\ dumped[i] = progress[i].rows)

\* the refresh of the second basket failed: the run returned, the warning is
\* logged and the rows of every instrument are in the archive
C19_Witness ==
    /\ run_pc = "returned"
    /\ index_done = <<"CSI100">>
    /\ warnings = <<"Failed to update index data">>
    /\ \A i \in RunInstruments : Did(i, "written") /\ dumped[i] = progress[i].rows
    /\ \E i \in RunInstruments : dumped[i] > 0

-----------------------------------------------------------------------------
(* Properties of the splice (specification Spec) *)

Instrument == "SH600000"
InArchive == Instrument \in DOMAIN old_qlib_data
ArchivedSeries == old_qlib_data[Instrument]
archivedRow == ArchivedSeries[Len(ArchivedSeries)]
lastDate == archivedRow.date

\* the newly normalized rows: what the plain normalizer returned for the raw frame
newNormalized == normalized
HasRowAt(f, d) == \E i \in 1..Len(f) : f[i].date = d
newBoundaryRow == FirstRowAt(newNormalized, lastDate)

Extended == stage = "done"

\* C1: for an instrument in the archive, when the newly normalized rows hold
\* no row dated lastDate, extend returns them unchanged: nothing rescaled,
\* nothing dropped.
C1_NoBoundaryRowReturnsUnchanged ==
    (Extended /\ InArchive /\ newNormalized # <<>> /\ ~HasRowAt(newNormalized, lastDate))
        => (outcome = "returned" /\ df = newNormalized)

\* k_col as the claim C2 words it: archived(lastDate, col) / new(lastDate, col)
kPlain(col) == Div(archivedRow[col], newBoundaryRow[col])

\* k_col with the fallback of lines 239: 1 when the new boundary value is NaN
\* or zero, or the archived value is NaN
kGuarded(col) ==
    IF notna(newBoundaryRow[col]) /\ newBoundaryRow[col] # Zero /\ notna(archivedRow[col])
    THEN Div(archivedRow[col], newBoundaryRow[col])
    ELSE One

\* every returned row is a new row dated after lastDate, scaled by k
ReturnedRowsAreScaled(k(_)) ==
    /\ outcome = "returned"
    /\ \A i \in 1..Len(df) :
          /\ df[i].date > lastDate
          /\ \E j \in 1..Len(newNormalized) :
                /\ newNormalized[j].date = df[i].date
                /\ \A col \in RescaleColumns :
                      df[i][col] = Mul(newNormalized[j][col], k(col))

\* C2 as stated: when the new rows hold a row at lastDate, every returned row
\* is a new row dated strictly after lastDate whose open/high/low/close/
\* volume/factor is the new value times archived(lastDate)/new(lastDate).
C2_ScaledByPlainRatio ==
    (Extended /\ InArchive /\ HasRowAt(newNormalized, lastDate))
        => ReturnedRowsAreScaled(kPlain)

\* C2 amended: the same with k_col = archived/new only when new(lastDate,col)
\* is neither NaN nor zero and archived(lastDate,col) is not NaN, and
\* k_col = 1 otherwise.
C2_ScaledByGuardedRatio ==
    (Extended /\ InArchive /\ HasRowAt(newNormalized, lastDate))
        => ReturnedRowsAreScaled(kGuarded)

\* the scenario of C2: archive close 15 at the boundary, new closes 30, 31, 32:
\* the appended closes are 15.5 and 16
C2_Witness ==
    /\ Extended /\ InArchive /\ lastDate = 1
    /\ archivedRow.close = Num(15)
    /\ Len(newNormalized) = 3
    /\ newNormalized[1].close = Num(30)
    /\ newNormalized[2].close = Num(31)
    /\ newNormalized[3].close = Num(32)
    /\ Len(df) = 2
    /\ df[1].close = Frac(31, 2) /\ df[2].close = Num(16)

\* C8: an empty frame stays empty through the plain normalizer and through
\* the extending normalizer run against an archive; neither raises.
C8_EmptyStaysEmpty ==
    /\ (stage = "normalized" /\ raw_df = <<>>) => df = <<>>
    /\ (Extended /\ raw_df = <<>>) => (outcome = "returned" /\ df = <<>>)

\* C9: when the window is already covered, i.e. there are new rows and every
\* one is dated at or before lastDate, extend returns an empty sequence.
C9_CoveredWindowAppendsNothing ==
    (Extended /\ InArchive /\ newNormalized # <<>>
       /\ \A i \in 1..Len(newNormalized) : newNormalized[i].date <= lastDate)
        => (outcome = "returned" /\ df = <<>>)

\* a re-run over a covered window: several new rows, the last one at lastDate
C9_Witness ==
    /\ Extended /\ InArchive
    /\ Len(newNormalized) >= 2
    /\ \A i \in 1..Len(newNormalized) : newNormalized[i].date <= lastDate
    /\ HasRowAt(newNormalized, lastDate)
    /\ outcome = "returned" /\ df = <<>>

\* C13: for an instrument with no series in the archive, extend returns the
\* newly normalized rows as they are: same rows, same values, none dropped.
\* (The rows name the instrument, so there is at least one.)
C13_FirstIngestReturnsUnchanged ==
    (Extended /\ ~InArchive /\ newNormalized # <<>>)
        => (outcome = "returned" /\ df = newNormalized)

\* a first-time ingestion of several rows, returned whole
C13_Witness ==
    /\ Extended /\ ~InArchive
    /\ Len(newNormalized) >= 2
    /\ outcome = "returned" /\ df = newNormalized

\* the column cannot be rescaled: the new boundary value is NaN or zero, or
\* the archived boundary value is NaN
NoRescale(col) ==
    \/ isnan(newBoundaryRow[col]) \/ newBoundaryRow[col] = Zero
    \/ isnan(archivedRow[col])

\* the new row that a returned row comes from
NewRowAt(d) == FirstRowAt(newNormalized, d)

\* C20: with a boundary row among the new rows, each of open, high, low,
\* close, volume and factor of every returned row is the new value times
\* archived(lastDate,col)/new(lastDate,col), the ratio of that column's own
\* boundary values as the normalizer produced them; a column whose new
\* boundary value is zero or NaN, or whose archived value is NaN, is returned
\* as it was, whatever happens to the other columns.
C20_EachColumnOwnRatio ==
    (Extended /\ InArchive /\ HasRowAt(newNormalized, lastDate)) =>
        /\ outcome = "returned"
        /\ \A i \in 1..Len(df) :
              /\ HasRowAt(newNormalized, df[i].date)
              /\ \A col \in RescaleColumns :
                    df[i][col] =
                        IF NoRescale(col)
                        THEN NewRowAt(df[i].date)[col]
                        ELSE Mul(NewRowAt(df[i].date)[col],
                                 Div(archivedRow[col], newBoundaryRow[col]))

\* the archive has no factor at the boundary and the new boundary open is 0:
\* factor and open of the appended row are left as they were while close is
\* rescaled from 31 to 15.5
C20_Witness ==
    /\ Extended /\ InArchive /\ HasRowAt(newNormalized, lastDate)
    /\ isnan(archivedRow.factor) /\ newBoundaryRow.open = Zero
    /\ Len(df) >= 1
    /\ NewRowAt(df[1].date).close = Num(31) /\ df[1].close = Frac(31, 2)
    /\ df[1].factor = NewRowAt(df[1].date).factor /\ notna(df[1].factor)
    /\ df[1].open = NewRowAt(df[1].date).open /\ df[1].open = Num(31)

\* C21: for an instrument in the archive, every row extend returns is dated
\* strictly after the archive's lastDate; neither the boundary row nor a new
\* row dated before lastDate is among them, so no returned row carries a
\* date the archive already holds.
C21_OnlyRowsAfterLastDate ==
    (Extended /\ InArchive) =>
        \A i \in 1..Len(df) :
            /\ df[i].date > lastDate
            /\ df[i].date \notin Dates(ArchivedSeries)

\* new rows before, at and after lastDate; only the last of them is returned
C21_Witness ==
    /\ Extended /\ InArchive /\ outcome = "returned"
    /\ \E i \in 1..Len(newNormalized) : newNormalized[i].date < lastDate
    /\ HasRowAt(newNormalized, lastDate)
    /\ Len(df) = 1 /\ df[1].date = lastDate + 1

-----------------------------------------------------------------------------
(* Properties of the normalizer's rows (specification Spec) *)

Normalized == stage = "normalized"

NumericColumns == {"open", "high", "low", "close", "volume", "change", "factor"}
AllNaN(r) == \A col \in NumericColumns : isnan(r[col])

\* the first raw row of date d, and whether its volume is a positive number
RawFirst(d) == FirstRowAt(raw_df, d)
RawValid(d) == HasRowAt(raw_df, d) /\ GtZero(to_numeric(RawFirst(d).volume))

\* C22: the normalizer returns one row for each trading date from the
\* earliest to the latest raw date, in date order; the row of a date with
\* several raw rows carries the prices of the first of them, and the row of
\* a date with no raw row is there with every numeric column NaN.
C22_OneRowPerTradingDate ==
    (Normalized /\ raw_df # <<>>) =>
        LET lo == SetMin(Dates(raw_df))
            hi == SetMax(Dates(raw_df))
        IN  /\ Len(df) = hi - lo + 1
            /\ \A i \in 1..Len(df) :
                  /\ df[i].date = lo + i - 1
                  /\ df[i].date \in Calendar
                  /\ RawValid(df[i].date) =>
                        /\ df[i].open = to_numeric(RawFirst(df[i].date).open)
                        /\ df[i].high = to_numeric(RawFirst(df[i].date).high)
                        /\ df[i].low = to_numeric(RawFirst(df[i].date).low)
                        /\ df[i].close = to_numeric(RawFirst(df[i].date).close)
                  /\ ~HasRowAt(raw_df, df[i].date) => AllNaN(df[i])

\* two raw rows of one date with different closes, then a date with no raw
\* row, then a later row
C22_Witness ==
    /\ Normalized /\ Len(raw_df) = 3 /\ Len(df) = 3
    /\ raw_df[1].date = raw_df[2].date /\ raw_df[1].close # raw_df[2].close
    /\ RawValid(raw_df[1].date)
    /\ df[1].close = to_numeric(raw_df[1].close)
    /\ ~HasRowAt(raw_df, df[2].date) /\ AllNaN(df[2])
    /\ RawValid(df[3].date)

-----------------------------------------------------------------------------
(* Properties of rows without a usable volume (specification SpecInvalid) *)

\* the raw row kept for date d has a volume that is zero, negative or not a
\* number
RawInvalid(d) ==
    /\ HasRowAt(raw_df, d)
    /\ LET v == to_numeric(RawFirst(d).volume) IN LeZero(v) \/ isnan(v)

\* C23: in the normalizer's output every row whose raw volume is zero,
\* negative or NaN has open, high, low, close, volume, change and factor all
\* NaN, and carries the instrument identifier of the frame.
C23_InvalidRowsAllNaN ==
    Normalized =>
        \A i \in 1..Len(df) :
            RawInvalid(df[i].date) =>
                /\ AllNaN(df[i])
                /\ df[i].symbol = raw_df[1].symbol

\* a zero-volume day and a negative-volume day, each with prices quoted by
\* the provider, after an ordinary day
C23_Witness ==
    /\ Normalized /\ Len(df) = 3
    /\ RawValid(df[1].date) /\ notna(df[1].close)
    /\ RawInvalid(df[2].date) /\ to_numeric(RawFirst(df[2].date).volume) = Zero
    /\ RawInvalid(df[3].date) /\ to_numeric(RawFirst(df[3].date).volume) = Num(-5)
    /\ notna(to_numeric(RawFirst(df[2].date).close))
    /\ AllNaN(df[2]) /\ AllNaN(df[3])
    /\ df[3].symbol = "sh600000"

\* close / preclose of the raw row of date d, as the provider quoted them
RawRatio(d) == Div(to_numeric(RawFirst(d).close), to_numeric(RawFirst(d).preclose))

\* the product of close / preclose over the valid rows among the first k
\* rows of the output
RECURSIVE ValidProduct(_)
ValidProduct(k) ==
    IF k = 0 THEN One
    ELSE IF RawValid(df[k].date) THEN Mul(ValidProduct(k - 1), RawRatio(df[k].date))
    ELSE ValidProduct(k - 1)

\* C24: rows without a usable volume neither reset nor spoil the running
\* factor: on every valid row the factor is the product of close / preclose
\* over all valid rows up to and including it, however many invalid rows lie
\* in between.
C24_FactorSkipsInvalidRows ==
    Normalized =>
        \A i \in 1..Len(df) :
            RawValid(df[i].date) => df[i].factor = ValidProduct(i)

\* a split day, a day without volume, another split day: the factor goes
\* 2, NaN, 4
C24_Witness ==
    /\ Normalized /\ Len(df) = 3
    /\ RawValid(df[1].date) /\ df[1].factor = Num(2)
    /\ RawInvalid(df[2].date) /\ isnan(df[2].factor)
    /\ RawValid(df[3].date) /\ df[3].factor = Num(4)

\* C25: normalize is called without a prior close, so the change of the
\* first row is NaN; the change of every later row is its close over the
\* close of the row immediately before it, minus 1.
C25_ChangeAgainstPreviousRow ==
    (Normalized /\ df # <<>>) =>
        /\ isnan(df[1].change)
        /\ \A i \in 2..Len(df) :
              df[i].change = Sub(Div(df[i].close, df[i - 1].close), One)

-----------------------------------------------------------------------------
(* Properties of the factor (specification SpecNormalize) *)

\* the raw row kept for date d has a volume that parses to a positive number
RawVolumeValid(d) ==
    /\ HasRowAt(raw_df, d)
    /\ GtZero(to_numeric(FirstRowAt(raw_df, d).volume))

\* C10: in a normalized sequence every row whose volume is non-NaN and
\* positive has a factor that is neither NaN nor zero, whatever the raw
\* preclose is.
C10_FactorDefinedOnValidRows ==
    stage = "normalized" =>
        \A i \in 1..Len(df) :
            RawVolumeValid(df[i].date) => (notna(df[i].factor) /\ df[i].factor # Zero)

\* an adjustment event on a row: the provider's close/preclose ratio is a
\* number other than 1
AdjustmentEvent(r) == notna(FactorRatio(r)) /\ FactorRatio(r) # One

\* C11: the factor is 1.0 on the first row of a normalized run; from one valid
\* row to the next it is multiplied by close/preclose when the row carries an
\* adjustment event and is the previous row's factor otherwise.
C11_FactorSeededAndStepped ==
    (stage = "normalized" /\ df # <<>>) =>
        /\ RawVolumeValid(df[1].date) => df[1].factor = One
        /\ \A i \in 2..Len(df) :
              (RawVolumeValid(df[i].date) /\ RawVolumeValid(df[i - 1].date)) =>
                  df[i].factor = IF AdjustmentEvent(df[i])
                                 THEN Mul(df[i - 1].factor, FactorRatio(df[i]))
                                 ELSE df[i - 1].factor

NormalizedColumns == {"open", "high", "low", "close", "volume", "change", "factor"}

\* C12: normalizing the output of normalize a second time, with the same
\* calendar, gives the same rows, and every row after the first keeps its
\* open, high, low, close, volume, change and factor.
C12_NormalizeIdempotent ==
    stage = "renormalized" =>
        /\ Len(df) = Len(normalized)
        /\ \A i \in 2..Len(df) :
              /\ df[i].date = normalized[i].date
              /\ \A col \in NormalizedColumns : df[i][col] = normalized[i][col]

\* C26: on every valid row of the normalizer's output the volume is the raw
\* volume divided by the row's factor, and open, high, low and close are the
\* numbers the provider supplied, unchanged.
C26_VolumeOverFactorPricesKept ==
    stage = "normalized" =>
        \A i \in 1..Len(df) :
            RawVolumeValid(df[i].date) =>
                LET r == FirstRowAt(raw_df, df[i].date)
                IN  /\ df[i].volume = Div(to_numeric(r.volume), df[i].factor)
                    /\ df[i].open = to_numeric(r.open)
                    /\ df[i].high = to_numeric(r.high)
                    /\ df[i].low = to_numeric(r.low)
                    /\ df[i].close = to_numeric(r.close)

\* closes 10, 10, 20 with preclose 10: on the split day the factor is 2 and
\* the raw volume of 100 becomes 50, the close stays 20
C26_Witness ==
    /\ stage = "normalized" /\ Len(df) = 3
    /\ \A i \in 1..3 : RawVolumeValid(df[i].date)
    /\ df[1].factor = One /\ df[2].factor = One /\ df[3].factor = Num(2)
    /\ to_numeric(FirstRowAt(raw_df, df[3].date).volume) = Num(100)
    /\ df[3].volume = Num(50) /\ df[3].close = Num(20)
    /\ df[1].volume = Num(100)

\* the scenario of C11: closes 10, 10, 20 with preclose 10 on each day give
\* the factors 1, 1, 2
C11_Scenario ==
    /\ stage = "normalized" /\ Len(df) = 3
    /\ df[1].close = Num(10) /\ df[2].close = Num(10) /\ df[3].close = Num(20)
    /\ df[1].factor = One /\ df[2].factor = One /\ df[3].factor = Num(2)

-----------------------------------------------------------------------------
(* Properties of the fetch (specification SpecFetch) *)

\* C3: one call makes at most 5 attempts, each with the call's (instrument,
\* start, end); every attempt that raised was followed by another one while
\* fewer than 5 had been made, and once the 5th has raised the call ends
\* by raising, never with a result.
C3_RetryBound ==
    \A w \in Workers :
        /\ attempt[w] <= 5
        /\ sent[w] # NoRequest =>
              /\ sent[w].code = SymbolOf(w)
              /\ sent[w].start_date = 1
              /\ sent[w].end_date = MaxDate
        /\ pc[w] \in {"check", "login", "setflag", "query"} => hist[w].raised = attempt[w] - 1
        /\ pc[w] = "failed" => hist[w].raised = attempt[w]
        /\ (pc[w] = "done" /\ ret[w].kind = "raised") => hist[w].raised = 5
        /\ (pc[w] = "done" /\ ret[w].kind # "raised") => hist[w].raised = attempt[w] - 1
        /\ (pc[w] = "done" /\ hist[w].raised = 5) => ret[w].kind = "raised"

\* five attempts raised and the call ended by raising
C3_Witness ==
    \E w \in Workers :
        pc[w] = "done" /\ ret[w].kind = "raised" /\ attempt[w] = 5 /\ sent[w] # NoRequest

\* C4: a response with a non-success error code is a failed attempt: the call
\* never ends with an empty result for it.
C4_ErrorCodeIsFailure ==
    \A w \in Workers :
        (pc[w] = "done" /\ ret[w].kind = "empty") => rs[w].error_code = BSERR_SUCCESS

\* C5: when an attempt has received an authentication-failure response, the
\* session flag is unset afterwards.
C5_AuthFailureClearsFlag ==
    [][\A w \in Workers :
          (pc[w] = "query" /\ pc'[w] = "done" /\ rs'[w].error_code = BSERR_NO_LOGIN)
              => ~BAOSTOCK_LOGGED_IN']_vars

\* C6: an attempt that found the flag unset has logged in and set the flag
\* before it queries; an attempt that found it set makes no login call; no
\* query is issued while the flag is unset.
C6_LoginBeforeQuery ==
    \A w \in Workers :
        /\ hist[w].queried # "unset"
        /\ pc[w] = "query" => BAOSTOCK_LOGGED_IN
        /\ (hist[w].checked = "unset" /\ hist[w].queried # "none") => hist[w].login
        /\ hist[w].checked = "set" => ~hist[w].login

\* one attempt logged in and queried, another found the flag set and queried
\* without logging in
C6_Witness ==
    \E w1, w2 \in Workers :
        /\ hist[w1].checked = "unset" /\ hist[w1].login /\ hist[w1].queried = "set"
        /\ hist[w2].checked = "set" /\ ~hist[w2].login /\ hist[w2].queried = "set"

\* C7: however the attempts interleave, the flag is set only after a
\* session-establish call has returned, a query is issued only after one has,
\* and the rows a call returns are the provider's rows for its own instrument.
C7_RaceOnlyRepeatsLogin ==
    /\ BAOSTOCK_LOGGED_IN => established
    /\ \A w \in Workers :
          /\ hist[w].queried # "none" => established
          /\ (pc[w] = "done" /\ ret[w].kind = "data") =>
                /\ Len(ret[w].rows) = 1
                /\ ret[w].rows[1].symbol = SymbolOf(w)
                /\ ret[w].rows[1].code = SymbolOf(w)
                /\ ret[w].rows[1].close = <<"1", "0">>

\* the race: two first attempts both found the flag unset, both logged in
\* (one login is redundant) and both calls returned their data
C7_Witness ==
    \E w1, w2 \in Workers :
        /\ w1 # w2
        /\ attempt[w1] = 1 /\ attempt[w2] = 1
        /\ hist[w1].checked = "unset" /\ hist[w1].login
        /\ hist[w2].checked = "unset" /\ hist[w2].login
        /\ pc[w1] = "done" /\ ret[w1].kind = "data"
        /\ pc[w2] = "done" /\ ret[w2].kind = "data"

-----------------------------------------------------------------------------
(* Properties of the health scan (specification SpecScan) *)

Summarized == scan_pc \in {"clean", "issues"}

Categories == {"missing_data", "large_steps", "missing_columns", "missing_factor", "errors"}

\* the entries of one category of the summary that name the instrument
EntriesFor(entries, instrument) == SelectSeq(entries, LAMBDA e : e.instrument = instrument)

\* the required columns the frame does not hold
AbsentColumns(fr) == {c \in SeqToSet(required_columns) : c \notin fr.columns}

\* a non-empty retrieved series
HasSeries(fr) == fr.kind = "frame" /\ fr.rows # <<>>

\* the summary of a scan of the instrument at position i alone
AloneSummary(i) ==
    summarize_results(<<check_instrument_data(instrument_list[i], features[i])>>).summary

\* C14: an instrument whose non-empty series lacks required columns gets one
\* missing_columns finding that names each absent column exactly once (and an
\* instrument lacking none gets no such finding); what the report holds for
\* each instrument, in every category, is what a scan of that instrument
\* alone reports, whatever the series of the other instruments are.
C14_MissingColumnsIsolated ==
    Summarized =>
        \A i \in Positions :
            LET fr == features[i]
                mc == EntriesFor(summary.missing_columns, instrument_list[i])
            IN  /\ (HasSeries(fr) /\ AbsentColumns(fr) # {}) =>
                      /\ Len(mc) = 1
                      /\ SeqToSet(mc[1].missing_columns) = AbsentColumns(fr)
                      /\ Len(mc[1].missing_columns) = Cardinality(AbsentColumns(fr))
                /\ (HasSeries(fr) /\ AbsentColumns(fr) = {}) => mc = <<>>
                /\ \A cat \in Categories :
                      EntriesFor(summary[cat], instrument_list[i]) = AloneSummary(i)[cat]

\* the first instrument lacks volume and is reported for it; the second has
\* all its columns and is reported for its large step only
C14_Witness ==
    /\ Summarized
    /\ Len(instrument_list) >= 2
    /\ HasSeries(features[1]) /\ AbsentColumns(features[1]) = {"volume"}
    /\ HasSeries(features[2]) /\ AbsentColumns(features[2]) = {}
    /\ EntriesFor(summary.missing_columns, instrument_list[1])
          = << [instrument |-> instrument_list[1], missing_columns |-> <<"volume">>] >>
    /\ EntriesFor(summary.missing_columns, instrument_list[2]) = <<>>
    /\ EntriesFor(summary.large_steps, instrument_list[2]) # <<>>

Raises(i) == features[i].kind = "raises"

\* what C16 says of the results: an instrument whose check raised has the
\* exception's message as the error entry of its own result, a summarized
\* scan holds a result for every instrument of the list, and the results of
\* the instruments that did not raise carry no error
ErrorsCapturedPerInstrument ==
    /\ \A i \in Positions :
          (task[i] = "done" /\ Raises(i)) =>
              /\ results[i].instrument = instrument_list[i]
              /\ results[i].has_error /\ results[i].error = features[i].msg
    /\ Summarized =>
          \A j \in Positions :
              /\ task[j] = "done"
              /\ results[j].instrument = instrument_list[j]
              /\ ~Raises(j) => ~results[j].has_error

\* C16: an exception raised while one instrument is checked is captured as
\* the error entry of that instrument's result; every other instrument still
\* gets its result, and the summary is still produced: from any state in
\* which a check has raised, the scan reaches its summary.
C16_ErrorDoesNotAbortScan ==
    /\ []ErrorsCapturedPerInstrument
    /\ (\E i \in Positions : task[i] = "done" /\ Raises(i)) ~> Summarized

\* the first instrument's check raised, the second one's did not; both have
\* their result and the summary lists the error
C16_Witness ==
    /\ Summarized /\ Len(instrument_list) >= 2
    /\ Raises(1) /\ results[1].has_error /\ results[1].error = "No such file"
    /\ ~Raises(2) /\ ~results[2].has_error /\ results[2].instrument = instrument_list[2]
    /\ summary.errors = << [instrument |-> instrument_list[1], error |-> "No such file"] >>

\* the result holds a finding of some category
HasFinding(res) ==
    \/ res.has_error
    \/ DOMAIN res.missing_data # {}
    \/ res.large_steps # <<>>
    \/ res.missing_columns # <<>>
    \/ res.missing_factor # "None"

\* the summary is built only once every check has finished, from one result
\* per instrument of the list
FanInAfterAllChecks ==
    /\ ~Summarized => (summary = NoSummary /\ ~problems_found)
    /\ Summarized =>
          /\ \A i \in Positions : task[i] = "done"
          /\ Len(completed) = Len(instrument_list)
          /\ SeqToSet(completed) = Positions
          /\ Len(results) = Len(instrument_list)
          /\ \A i \in Positions : results[i].instrument = instrument_list[i]

\* every finding is filed under its own category with its instrument, and
\* nothing else is in the summary
FiledByCategoryAndInstrument ==
    Summarized =>
        /\ \A i \in Positions :
              LET name == instrument_list[i]
                  res == results[i]
              IN  /\ EntriesFor(summary.missing_data, name) = MissingDataOf(res)
                  /\ EntriesFor(summary.large_steps, name) = LargeStepsOf(res)
                  /\ EntriesFor(summary.missing_columns, name) = MissingColumnsOf(res)
                  /\ EntriesFor(summary.missing_factor, name) = MissingFactorOf(res)
                  /\ res.has_error =>
                        EntriesFor(summary.errors, name)
                            = << [instrument |-> name, error |-> res.error] >>
                  /\ ~res.has_error => EntriesFor(summary.errors, name) = <<>>
        /\ \A cat \in Categories :
              \A k \in 1..Len(summary[cat]) :
                  summary[cat][k].instrument \in SeqToSet(instrument_list)

\* the run is reported clean exactly when no result holds a finding
CleanIffNoFinding ==
    Summarized =>
        ((scan_pc = "clean") <=> (\A i \in Positions : ~HasFinding(results[i])))

\* C17: under every completion order the summary is built after all checks
\* have finished, from exactly one result per checked instrument; each
\* finding is filed under its own category with its instrument; the run is
\* reported clean if and only if no result holds an error, missing_data,
\* large_steps, missing_columns or missing_factor finding.
C17_FanInSummary ==
    /\ FanInAfterAllChecks
    /\ FiledByCategoryAndInstrument
    /\ CleanIffNoFinding

-----------------------------------------------------------------------------
(* Properties of check_instrument_data (specification SpecHealth) *)

\* the instrument of SpecHealth, its frame and its result once the check is done
Checked == Len(instrument_list) = 1 /\ task[1] = "done"
TheFrame == features[1]
TheResult == results[1]

ThresholdOf(col) ==
    IF col = "volume" THEN large_step_threshold_volume ELSE large_step_threshold_price

\* the absolute fractional change of the column from row t-1 to row t (t >= 2)
AbsChange(fr, col, t) ==
    LET c == Sub(Div(fr.rows[t][col], fr.rows[t - 1][col]), One)
    IN  IF c[1] < 0 THEN <<-c[1], c[2]>> ELSE c

\* the rows on which the column's change exceeds its threshold
Offending(fr, col) ==
    {t \in 2..Len(fr.rows) : Gt(AbsChange(fr, col, t), ThresholdOf(col))}

FindingsFor(res, col) == SelectSeq(res.large_steps, LAMBDA e : e.col_name = col)

\* C15: for each of open/high/low/close/volume held by the series there is a
\* large_steps finding exactly when some day-over-day absolute fractional
\* change strictly exceeds the column's threshold (the price threshold for
\* OHLC, the volume threshold for volume); there is at most one finding per
\* column, its date is the first date on which the change exceeds the
\* threshold and its magnitude is the column's maximum absolute change.
C15_LargeStepReported ==
    (Checked /\ HasSeries(TheFrame)) =>
        \A col \in SeqToSet(StepColumns) :
            LET found == FindingsFor(TheResult, col)
                off == Offending(TheFrame, col)
            IN  /\ Len(found) <= 1
                /\ col \notin TheFrame.columns => found = <<>>
                /\ col \in TheFrame.columns =>
                      /\ (found # <<>>) <=> (off # {})
                      /\ found # <<>> =>
                            /\ found[1].date = TheFrame.rows[SetMin(off)].date
                            /\ \E t \in off : found[1].pct_change = AbsChange(TheFrame, col, t)
                            /\ \A t \in off : ~Gt(AbsChange(TheFrame, col, t), found[1].pct_change)

\* the scenario of C15: close moves from 10 to 16, the price threshold is 0.5:
\* one finding for close at that date with magnitude 0.6, none for open
C15_Witness ==
    /\ Checked /\ HasSeries(TheFrame) /\ Len(TheFrame.rows) = 2
    /\ TheFrame.rows[1].close = Num(10) /\ TheFrame.rows[2].close = Num(16)
    /\ large_step_threshold_price = Frac(1, 2)
    /\ FindingsFor(TheResult, "close")
          = << [col_name |-> "close", date |-> 2, pct_change |-> Frac(3, 5)] >>
    /\ FindingsFor(TheResult, "open") = <<>>

\* the change of the column on row t is undefined: t is the first row, or the
\* value of row t or of row t-1 is NaN
Undefined(fr, col, t) ==
    t = 1 \/ isnan(fr.rows[t][col]) \/ isnan(fr.rows[t - 1][col])

RowsDated(fr, d) == {t \in 1..Len(fr.rows) : fr.rows[t].date = d}

\* C27: a large_steps finding is never dated on a row whose change is
\* undefined (the first row, or a step from or to NaN; nothing is filled in
\* before the comparison), and a column whose changes are all undefined has
\* no finding.
C27_UndefinedChangeNeverTriggers ==
    (Checked /\ HasSeries(TheFrame)) =>
        \A col \in SeqToSet(StepColumns) :
            LET found == FindingsFor(TheResult, col)
            IN  /\ \A k \in 1..Len(found) :
                      \A t \in RowsDated(TheFrame, found[k].date) :
                          /\ ~Undefined(TheFrame, col, t)
                          /\ Gt(AbsChange(TheFrame, col, t), ThresholdOf(col))
                /\ (col \in TheFrame.columns
                     /\ \A t \in 1..Len(TheFrame.rows) : Undefined(TheFrame, col, t))
                        => found = <<>>

\* close is 10, then NaN, then 16: 16 against a filled-in 10 would be a step
\* of 60%, and there is no finding for close
C27_Witness ==
    /\ Checked /\ HasSeries(TheFrame) /\ Len(TheFrame.rows) = 3
    /\ TheFrame.rows[1].close = Num(10) /\ isnan(TheFrame.rows[2].close)
    /\ TheFrame.rows[3].close = Num(16)
    /\ FindingsFor(TheResult, "close") = <<>>

\* the number of NaN values the column holds
NaNCount(fr, col) == Cardinality({t \in 1..Len(fr.rows) : isnan(fr.rows[t][col])})

\* C28: for a series with rows, a column is under missing_data exactly when
\* the series holds it and its number of NaN values is greater than
\* missing_data_num; the value reported is that number, in the result of the
\* check and in the summary's entry for the instrument and column.
C28_MissingDataCounts ==
    (Checked /\ HasSeries(TheFrame)) =>
        \A col \in AllColumns :
            LET reported == col \in DOMAIN TheResult.missing_data
            IN  /\ reported <=>
                      (col \in TheFrame.columns /\ NaNCount(TheFrame, col) > missing_data_num)
                /\ reported =>
                      TheResult.missing_data[col] = MissingCount(NaNCount(TheFrame, col))
                /\ Summarized =>
                      (reported <=>
                          \E k \in 1..Len(summary.missing_data) :
                              summary.missing_data[k] =
                                  [instrument |-> instrument_list[1], column |-> col,
                                   missing_count |-> MissingCount(NaNCount(TheFrame, col))])

\* three days of which two have no factor: factor is reported with the count
\* 2, close, which is complete, is not reported
C28_Witness ==
    /\ Checked /\ Summarized /\ Len(TheFrame.rows) = 3
    /\ TheFrame.columns = AllColumns
    /\ NaNCount(TheFrame, "factor") = 2 /\ NaNCount(TheFrame, "close") = 0
    /\ DOMAIN TheResult.missing_data = {"factor"}
    /\ TheResult.missing_data["factor"] = MissingCount(2)
    /\ Len(summary.missing_data) = 1 /\ summary.missing_data[1].column = "factor"

\* the summary's missing_factor entries for the instrument checked
FactorEntries == EntriesFor(summary.missing_factor, instrument_list[1])

\* C29: for a series with rows the missing_factor finding is
\* "column_missing" exactly when the series has no factor column, "all_nan"
\* exactly when it has one and every factor is NaN, and there is none when
\* some factor is a number; the summary carries the finding as it is.
C29_MissingFactorReason ==
    (Checked /\ HasSeries(TheFrame)) =>
        LET absent == "factor" \notin TheFrame.columns
            allnan == NaNCount(TheFrame, "factor") = Len(TheFrame.rows)
        IN  /\ TheResult.missing_factor = "column_missing" <=> absent
            /\ TheResult.missing_factor = "all_nan" <=> (~absent /\ allnan)
            /\ TheResult.missing_factor = "None" <=> (~absent /\ ~allnan)
            /\ Summarized =>
                  FactorEntries =
                      IF ~absent /\ ~allnan THEN <<>>
                      ELSE << [instrument |-> instrument_list[1],
                               reason |-> TheResult.missing_factor] >>

\* two days with prices and volume whose factor is NaN on both: "all_nan"
C29_Witness ==
    /\ Checked /\ Summarized /\ Len(TheFrame.rows) = 2
    /\ "factor" \in TheFrame.columns
    /\ \A t \in 1..2 : isnan(TheFrame.rows[t].factor) /\ notna(TheFrame.rows[t].close)
    /\ TheResult.missing_factor = "all_nan"
    /\ FactorEntries = << [instrument |-> "SH600000", reason |-> "all_nan"] >>

\* C30: in every large_steps finding the reported pct_change is the absolute
\* change of the column on the reported date, also when several days of the
\* column are above the threshold.
C30_MagnitudeOfReportedDate ==
    (Checked /\ HasSeries(TheFrame)) =>
        \A k \in 1..Len(TheResult.large_steps) :
            LET e == TheResult.large_steps[k]
            IN  \A t \in RowsDated(TheFrame, e.date) :
                    /\ t >= 2
                    /\ e.pct_change = AbsChange(TheFrame, e.col_name, t)

====
